---- MODULE Spec2Model ----
(***************************************************************************)
(* Model of port-desc (src/src/portdesc.rs): a CSV text is deserialized    *)
(* into PortDescEntry records, the records are partitioned into four       *)
(* HashMap<u16, PortDescEntry> (one per TransportProtocol), and the        *)
(* PortDescription built from them answers point queries.                  *)
(*                                                                         *)
(* Text is modelled as sequences of one-character strings, so that         *)
(* to_lowercase, the u16 parse and the protocol match are computed and not *)
(* assumed.  Option<T> is a sequence of length 0 (None) or 1 (Some), and   *)
(* Result<T, E> is a record [tag, val].                                    *)
(***************************************************************************)
EXTENDS Integers, Sequences, FiniteSets, TLC

VARIABLES
    csv_file,   \* the locator handed to from_csv_file: [utf8, readable]
    csv_text,   \* the tabular text: [header: Seq(column name), rows: Seq(Seq(cell))]
    port_desc,  \* Result<PortDescription, Error> of the construction, or Pending / Panic
    ret         \* the last query and the value it returned

vars == <<csv_file, csv_text, port_desc, ret>>

----------------------------------------------------------------------------
(* Bounds of the model *)

\* data rows of a text whose header names the four columns
MaxRows == 2
\* data rows of a text with a deficient header, or read through a locator
\* other than a readable UTF-8 path
MaxRowsAux == 1

----------------------------------------------------------------------------
(* Option and Result *)

None == <<>>
Some(v) == <<v>>
Ok(v) == [tag |-> "Ok", val |-> v]
Err(e) == [tag |-> "Err", val |-> e]

\* u16::MAX, the largest value of the port_number field and of the map keys
U16Max == 65535

----------------------------------------------------------------------------
(* TransportProtocol and its Deserialize impl *)

TransportProtocol == {"Tcp", "Udp", "Sctp", "Dccp"}

\* char::to_lowercase on the letters the model's cells use
LowerChar(c) ==
    CASE c = "T" -> "t" [] c = "C" -> "c" [] c = "P" -> "p"
      [] c = "U" -> "u" [] c = "D" -> "d" [] c = "S" -> "s"
      [] OTHER -> c

to_lowercase(s) == [i \in 1..Len(s) |-> LowerChar(s[i])]

\* impl Deserialize for TransportProtocol: the lowercased text is matched
\* against the four names; anything else is Err(unknown_variant)
deserialize(field) ==
    LET s == to_lowercase(field) IN
    CASE s = <<"t", "c", "p">> -> Ok("Tcp")
      [] s = <<"u", "d", "p">> -> Ok("Udp")
      [] s = <<"s", "c", "t", "p">> -> Ok("Sctp")
      [] s = <<"d", "c", "c", "p">> -> Ok("Dccp")
      [] OTHER -> Err("unknown variant")

----------------------------------------------------------------------------
(* The fields of PortDescEntry, as the derived Deserialize reads them *)

Digit == [c \in {"0", "1", "2", "3", "4", "5", "6", "7", "8", "9"} |->
    CASE c = "0" -> 0 [] c = "1" -> 1 [] c = "2" -> 2 [] c = "3" -> 3
      [] c = "4" -> 4 [] c = "5" -> 5 [] c = "6" -> 6 [] c = "7" -> 7
      [] c = "8" -> 8 [] c = "9" -> 9]

\* str::parse::<u16> on the digits left, acc being the value read so far
RECURSIVE parse_digits(_, _)
parse_digits(s, acc) ==
    IF s = <<>> THEN Ok(acc)
    ELSE IF Head(s) \notin DOMAIN Digit THEN Err("invalid digit")
    ELSE LET v == acc * 10 + Digit[Head(s)] IN
         IF v > U16Max THEN Err("number too large")
         ELSE parse_digits(Tail(s), v)

parse_u16(field) ==
    IF field = <<>> THEN Err("empty") ELSE parse_digits(field, 0)

\* Option<T> read from a CSV field: the empty field is None, any other
\* field is Some of what T reads from it (inner), and T's error is the
\* field's error
deserialize_option(field, inner) ==
    IF field = <<>> THEN Ok(None)
    ELSE IF inner.tag = "Ok" THEN Ok(Some(inner.val)) ELSE inner

\* csv::invalid_option: the Option read from the field, its error turned
\* into None
invalid_option(r) == IF r.tag = "Ok" THEN r ELSE Ok(None)

\* port_number read as a plain Option<u16>: the parse error is kept
port_number_field_strict(field) == deserialize_option(field, parse_u16(field))

\* port_number: Option<u16>, deserialize_with = "csv::invalid_option"
port_number_field(field) == invalid_option(deserialize_option(field, parse_u16(field)))

\* transport_protocol: Option<TransportProtocol>, with no deserialize_with
transport_protocol_field(field) == deserialize_option(field, deserialize(field))

----------------------------------------------------------------------------
(* PortDescEntry and the derived Deserialize, fields found by header name *)

ServiceName == "Service Name"
PortNumber == "Port Number"
TransportProtocolColumn == "Transport Protocol"
Description == "Description"

\* the position of a column in the header row, 0 when the header lacks it
Column(header, name) ==
    IF \E i \in 1..Len(header) : header[i] = name
    THEN CHOOSE i \in 1..Len(header) :
            header[i] = name /\ \A j \in 1..(i - 1) : header[j] # name
    ELSE 0

\* One data row read as a PortDescEntry.  A column the header lacks is a
\* missing field: an error for the two String fields and for the field with
\* deserialize_with, None for the plain Option field.
PortDescEntry(header, row) ==
    LET sn == Column(header, ServiceName)
        pn == Column(header, PortNumber)
        tp == Column(header, TransportProtocolColumn)
        ds == Column(header, Description)
        port == IF pn = 0 THEN Err("missing field") ELSE port_number_field(row[pn])
        proto == IF tp = 0 THEN Ok(None) ELSE transport_protocol_field(row[tp])
    IN  IF sn = 0 \/ ds = 0 THEN Err("missing field")
        ELSE IF port.tag = "Err" THEN port
        ELSE IF proto.tag = "Err" THEN proto
        ELSE Ok([service_name |-> row[sn],
                 port_number |-> port.val,
                 transport_protocol |-> proto.val,
                 description |-> row[ds]])

\* Reader::deserialize().collect(): the rows in source order, or the first
\* error; a row whose field count differs from the header's is an error
RECURSIVE collect(_, _, _)
collect(header, rows, acc) ==
    IF rows = <<>> THEN Ok(acc)
    ELSE IF Len(Head(rows)) # Len(header) THEN Err("unequal lengths")
    ELSE LET e == PortDescEntry(header, Head(rows)) IN
         IF e.tag = "Err" THEN e
         ELSE collect(header, Tail(rows), Append(acc, e.val))

get_csv_deserialized(text) == collect(text.header, text.rows, <<>>)

----------------------------------------------------------------------------
(* The Protocol Index Builder *)

\* HashMap::insert: the value at key k is replaced
insert(hmap, k, v) == [x \in DOMAIN hmap \cup {k} |-> IF x = k THEN v ELSE hmap[x]]

\* a loop that keeps the first record of a slot (entry().or_insert)
RECURSIVE get_ports_loop_first(_, _, _)
get_ports_loop_first(p, records, hmap) ==
    IF records = <<>> THEN hmap
    ELSE LET port == Head(records)
             next == IF /\ port.transport_protocol # None
                        /\ port.transport_protocol[1] = p
                        /\ port.port_number # None
                        /\ port.port_number[1] \notin DOMAIN hmap
                     THEN insert(hmap, port.port_number[1], port)
                     ELSE hmap
         IN  get_ports_loop_first(p, Tail(records), next)

\* the for loop of get_ports, hmap being the map built so far
RECURSIVE get_ports_loop(_, _, _)
get_ports_loop(p, records, hmap) ==
    IF records = <<>> THEN hmap
    ELSE LET port == Head(records)
             next == IF /\ port.transport_protocol # None
                        /\ port.transport_protocol[1] = p
                        /\ port.port_number # None
                     THEN insert(hmap, port.port_number[1], port)
                     ELSE hmap
         IN  get_ports_loop(p, Tail(records), next)

\* a protocol-blind index: every record with a port number is inserted
RECURSIVE get_ports_loop_any(_, _, _)
get_ports_loop_any(p, records, hmap) ==
    IF records = <<>> THEN hmap
    ELSE LET port == Head(records)
             next == IF port.port_number # None
                     THEN insert(hmap, port.port_number[1], port)
                     ELSE hmap
         IN  get_ports_loop_any(p, Tail(records), next)

get_ports_any(p, records) == get_ports_loop_any(p, records, <<>>)

get_ports(p, records) == get_ports_loop(p, records, <<>>)

ParseError == "CSV file cannot be parsed"

\* Result<PortsHashMaps, Error>: the tuple is (tcp, udp, dccp, sctp)
store_to_hashmaps(text) ==
    LET records == get_csv_deserialized(text) IN
    IF records.tag = "Err" THEN Err(ParseError)
    ELSE Ok(<<get_ports("Tcp", records.val),
              get_ports("Udp", records.val),
              get_ports("Dccp", records.val),
              get_ports("Sctp", records.val)>>)

----------------------------------------------------------------------------
(* PortDescription: the constructors *)

Pending == [tag |-> "Pending", val |-> "none"]
Panic == [tag |-> "Panic", val |-> "unwrap on None"]

default(text) ==
    LET r == store_to_hashmaps(text) IN
    IF r.tag = "Ok"
    THEN Ok([tcp_entries |-> r.val[1],
             udp_entries |-> r.val[2],
             dccp_entries |-> r.val[3],
             sctp_entries |-> r.val[4]])
    ELSE Err(<<"Error: ", r.val>>)

\* read_to_string succeeds exactly when the locator is readable; the error
\* message unwraps Path::to_str, which is None for a path that is not UTF-8
from_csv_file(file, text) ==
    IF file.readable
    THEN LET r == store_to_hashmaps(text) IN
         IF r.tag = "Ok"
         THEN Ok([tcp_entries |-> r.val[1],
                  udp_entries |-> r.val[2],
                  dccp_entries |-> r.val[3],
                  sctp_entries |-> r.val[4]])
         ELSE Err(<<"Error: ", r.val>>)
    ELSE IF file.utf8
         THEN Err(<<"ERROR: CSV file cannot be open - ", "path">>)
         ELSE Panic

----------------------------------------------------------------------------
(* PortDescription: the queries *)

get_info(port_number, hashmap) ==
    IF port_number \in DOMAIN hashmap THEN Some(hashmap[port_number]) ELSE None

\* the Dccp and Sctp arms exchanged
get_port_info_swapped(self, port_number, transport_protocol) ==
    CASE transport_protocol = "Tcp" -> get_info(port_number, self.tcp_entries)
      [] transport_protocol = "Udp" -> get_info(port_number, self.udp_entries)
      [] transport_protocol = "Dccp" -> get_info(port_number, self.sctp_entries)
      [] transport_protocol = "Sctp" -> get_info(port_number, self.dccp_entries)

get_port_info(self, port_number, transport_protocol) ==
    CASE transport_protocol = "Tcp" -> get_info(port_number, self.tcp_entries)
      [] transport_protocol = "Udp" -> get_info(port_number, self.udp_entries)
      [] transport_protocol = "Dccp" -> get_info(port_number, self.dccp_entries)
      [] transport_protocol = "Sctp" -> get_info(port_number, self.sctp_entries)

get_port_service_name(self, port_number, transport_protocol) ==
    LET p == get_port_info(self, port_number, transport_protocol) IN
    IF p # None THEN p[1].service_name ELSE <<>>

\* the description lookup reading the service_name field
get_port_description_name(self, port_number, transport_protocol) ==
    LET p == get_port_info(self, port_number, transport_protocol) IN
    IF p # None THEN p[1].service_name ELSE <<>>

get_port_description(self, port_number, transport_protocol) ==
    LET p == get_port_info(self, port_number, transport_protocol) IN
    IF p # None THEN p[1].description ELSE <<>>

----------------------------------------------------------------------------
(* The inputs: cells, rows, texts and locators *)

\* Port Number cells beside "0" and "80": "", "1-2", "65536"
BadPortCells == {<<>>, <<"1", "-", "2">>, <<"6", "5", "5", "3", "6">>}

\* Transport Protocol cells: "TCP", "udp", "sctp", "dccp"; and "", "foo"
GoodProtocolCells == {<<"T", "C", "P">>, <<"u", "d", "p">>,
                      <<"s", "c", "t", "p">>, <<"d", "c", "c", "p">>}
BadProtocolCells == {<<>>, <<"f", "o", "o">>}

\* Data rows under the header FullHeader: rows with a port and a protocol
\* (two of them in slot (TCP, 80), port 0 under two protocols), rows with an
\* unparsable port, rows with an empty and with an unknown protocol, a row
\* with neither, and a row that lacks a field.
Www == <<"w", "w", "w">>
Web == <<"W", "e", "b">>
Rows ==
    {<<Www, (<<"8", "0">>), t, Web>> : t \in GoodProtocolCells}
    \cup {<<(<<>>), (<<"8", "0">>), (<<"T", "C", "P">>), (<<"R", "s", "v">>)>>,
          <<Www, (<<"0">>), (<<"u", "d", "p">>), Web>>,
          <<(<<>>), (<<"0">>), (<<"s", "c", "t", "p">>), (<<"R", "s", "v">>)>>}
    \cup {<<Www, p, (<<"T", "C", "P">>), Web>> : p \in BadPortCells}
    \cup {<<Www, (<<"8", "0">>), t, Web>> : t \in BadProtocolCells}
    \cup {<<(<<>>), (<<>>), (<<>>), (<<"R", "s", "v">>)>>}
    \cup {<<Www, (<<"8", "0">>), (<<"T", "C", "P">>)>>}

FullHeader == <<ServiceName, PortNumber, TransportProtocolColumn, Description>>

\* s without its k-th element
Drop(s, k) == SubSeq(s, 1, k - 1) \o SubSeq(s, k + 1, Len(s))

SeqsUpTo(S, n) == UNION {[1..k -> S] : k \in 0..n}

Texts ==
    {[header |-> FullHeader, rows |-> rs] : rs \in SeqsUpTo(Rows, MaxRows)}
    \cup {[header |-> Drop(FullHeader, k),
           rows |-> [i \in 1..Len(rs) |-> Drop(rs[i], k)]] :
             k \in 1..Len(FullHeader), rs \in SeqsUpTo(Rows, MaxRowsAux)}

Locators == [utf8 : BOOLEAN, readable : BOOLEAN]
AssetPath == [utf8 |-> TRUE, readable |-> TRUE]

\* the u16 values the queries are issued with
QueryPorts == {0, 80}

NoCall == [op |-> "none", port_number |-> 0, transport_protocol |-> "Tcp", val |-> None]

----------------------------------------------------------------------------
(* The state machine *)

Init ==
    /\ csv_text \in Texts
    /\ csv_file \in (IF Len(csv_text.rows) <= MaxRowsAux THEN Locators ELSE {AssetPath})
    /\ port_desc = Pending
    /\ ret = NoCall

\* PortDescription::default(): csv_text is the bundled text
Default ==
    /\ port_desc = Pending
    /\ port_desc' = default(csv_text)
    /\ UNCHANGED <<csv_file, csv_text, ret>>

\* PortDescription::from_csv_file(csv_file): csv_text is what the file holds
FromCsvFile ==
    /\ port_desc = Pending
    /\ port_desc' = from_csv_file(csv_file, csv_text)
    /\ UNCHANGED <<csv_file, csv_text, ret>>

\* hmap without key k (HashMap::remove)
remove(hmap, k) == [x \in DOMAIN hmap \ {k} |-> hmap[x]]

\* a lookup that takes the entry out of the map it reads
GetPortInfoTake ==
    /\ port_desc.tag = "Ok"
    /\ \E n \in QueryPorts, P \in TransportProtocol :
          /\ ret' = [op |-> "get_port_info", port_number |-> n, transport_protocol |-> P,
                     val |-> get_port_info(port_desc.val, n, P)]
          /\ port_desc' = Ok([tcp_entries |-> remove(port_desc.val.tcp_entries, n),
                              udp_entries |-> remove(port_desc.val.udp_entries, n),
                              dccp_entries |-> remove(port_desc.val.dccp_entries, n),
                              sctp_entries |-> remove(port_desc.val.sctp_entries, n)])
    /\ UNCHANGED <<csv_file, csv_text>>

GetPortInfo ==
    /\ port_desc.tag = "Ok"
    /\ \E n \in QueryPorts, P \in TransportProtocol :
          ret' = [op |-> "get_port_info", port_number |-> n, transport_protocol |-> P,
                  val |-> get_port_info(port_desc.val, n, P)]
    /\ UNCHANGED <<csv_file, csv_text, port_desc>>

GetPortServiceName ==
    /\ port_desc.tag = "Ok"
    /\ \E n \in QueryPorts, P \in TransportProtocol :
          ret' = [op |-> "get_port_service_name", port_number |-> n, transport_protocol |-> P,
                  val |-> get_port_service_name(port_desc.val, n, P)]
    /\ UNCHANGED <<csv_file, csv_text, port_desc>>

GetPortDescription ==
    /\ port_desc.tag = "Ok"
    /\ \E n \in QueryPorts, P \in TransportProtocol :
          ret' = [op |-> "get_port_description", port_number |-> n, transport_protocol |-> P,
                  val |-> get_port_description(port_desc.val, n, P)]
    /\ UNCHANGED <<csv_file, csv_text, port_desc>>

Next ==
    \/ Default
    \/ FromCsvFile
    \/ GetPortInfo
    \/ GetPortServiceName
    \/ GetPortDescription

Spec == Init /\ [][Next]_vars

----------------------------------------------------------------------------
(* Vocabulary of the properties *)

Built == port_desc.tag = "Ok"

\* the two failures a construction returns
DatasetError == Err(<<"Error: ", ParseError>>)
SourceUnavailableError == Err(<<"ERROR: CSV file cannot be open - ", "path">>)

\* the construction has read csv_text (it did not stop at the locator)
Parsed == Built \/ port_desc = DatasetError

\* the parsed row sequence of csv_text (when the parse succeeds)
Records == get_csv_deserialized(csv_text).val

Maps(self) == {self.tcp_entries, self.udp_entries, self.dccp_entries, self.sctp_entries}

\* the port numbers the properties range over: those queried, every key of
\* every mapping of self, every port number of the rows recs, and u16::MAX
Ports(self, recs) ==
    QueryPorts \cup {U16Max} \cup UNION {DOMAIN m : m \in Maps(self)}
    \cup UNION {{recs[i].port_number[j] : j \in 1..Len(recs[i].port_number)} :
                  i \in 1..Len(recs)}

\* the rows of slot (P, n) among recs, by position in source order
SlotRows(recs, n, P) ==
    {i \in 1..Len(recs) :
        /\ recs[i].transport_protocol = Some(P)
        /\ recs[i].port_number = Some(n)}

Last(I) == CHOOSE i \in I : \A j \in I : j <= i

\* the cell of row i under the named column (the header has the column)
Cell(i, name) == csv_text.rows[i][Column(csv_text.header, name)]

HasColumn(name) == Column(csv_text.header, name) # 0

Aligned == \A i \in 1..Len(csv_text.rows) : Len(csv_text.rows[i]) = Len(csv_text.header)

HasAllColumns ==
    \A name \in {ServiceName, PortNumber, TransportProtocolColumn, Description} :
        HasColumn(name)

\* the number a sequence of digits spells
RECURSIVE Value(_)
Value(s) == IF s = <<>> THEN 0 ELSE Value(SubSeq(s, 1, Len(s) - 1)) * 10 + Digit[s[Len(s)]]

\* a Port Number cell that is empty, holds a character that is no digit, or
\* spells an integer above 65535
UnparsablePort(cell) ==
    \/ cell = <<>>
    \/ \E k \in 1..Len(cell) : cell[k] \notin DOMAIN Digit
    \/ Value(cell) > U16Max

\* a Transport Protocol cell that is no spelling of the four names
RecognizedNames == {<<"t", "c", "p">>, <<"u", "d", "p">>,
                    <<"s", "c", "t", "p">>, <<"d", "c", "c", "p">>}

Unrecognized(cell) == to_lowercase(cell) \notin RecognizedNames

----------------------------------------------------------------------------
(* Properties *)

\* C1: a record returned by get_port_info(n, P) has port_number n and
\* transport_protocol P, for every port and each of the four protocols
C1_LookupMatchesQuery ==
    Built =>
        LET self == port_desc.val
            recs == Records
        IN  \A n \in Ports(self, recs), P \in TransportProtocol :
                LET e == get_port_info(self, n, P) IN
                e # None =>
                    /\ e[1].port_number = Some(n)
                    /\ e[1].transport_protocol = Some(P)

\* a registry that indexes a DCCP row and no SCTP row at port 80
C1_Witness ==
    /\ Built
    /\ get_port_info(port_desc.val, 80, "Dccp") # None
    /\ get_port_info(port_desc.val, 80, "Sctp") = None

\* C2: when two or more rows share a (protocol, port) slot, the record
\* get_port_info returns for the slot is the last of them in source order
C2_LastRowWins ==
    Built =>
        LET self == port_desc.val
            recs == Records
        IN  \A n \in Ports(self, recs), P \in TransportProtocol :
                LET I == SlotRows(recs, n, P) IN
                Cardinality(I) >= 2 => get_port_info(self, n, P) = Some(recs[Last(I)])

\* two rows of one slot with different service names
C2_Witness ==
    /\ Built
    /\ LET self == port_desc.val
           recs == Records
       IN  \E n \in Ports(self, recs), P \in TransportProtocol :
              \E i, j \in SlotRows(recs, n, P) :
                  /\ i < j
                  /\ recs[i].service_name # recs[j].service_name
                  /\ get_port_info(self, n, P)[1].service_name = recs[j].service_name

\* C3: in a text with the four columns and aligned rows, a Transport
\* Protocol cell that spells none of the four names is read as absent and
\* the construction succeeds
C3_ProtocolTolerance ==
    (Parsed /\ HasAllColumns /\ Aligned) =>
        /\ Built
        /\ LET recs == Records IN
           \A i \in 1..Len(csv_text.rows) :
              Unrecognized(Cell(i, TransportProtocolColumn)) =>
                  recs[i].transport_protocol = None

\* C4: a construction from a text whose header lacks one of the four
\* columns returns the dataset error and no registry
C4_MissingColumnFails ==
    (Parsed /\ ~HasAllColumns) => port_desc = DatasetError

\* the part of a text that the port cells do not decide: the four columns
\* are named, the rows are aligned, and every protocol cell deserializes
WellFormedButPorts ==
    /\ HasAllColumns
    /\ Aligned
    /\ \A i \in 1..Len(csv_text.rows) :
          transport_protocol_field(Cell(i, TransportProtocolColumn)).tag = "Ok"

\* C5: a row whose Port Number cell is empty, not a number or above 65535
\* is read with port_number absent, the parse of the text does not fail for
\* it, and no lookup returns the row
C5_PortTolerance ==
    /\ (Parsed /\ WellFormedButPorts) =>
          /\ Built
          /\ LET recs == Records IN
             \A i \in 1..Len(csv_text.rows) :
                UnparsablePort(Cell(i, PortNumber)) => recs[i].port_number = None
    /\ (Built /\ HasColumn(PortNumber)) =>
          LET self == port_desc.val
              recs == Records
          IN  \A i \in 1..Len(csv_text.rows) :
                  UnparsablePort(Cell(i, PortNumber)) =>
                      \A n \in Ports(self, recs), P \in TransportProtocol :
                          get_port_info(self, n, P) # Some(recs[i])

\* a registry built from a text with a port range and a port above 65535
C5_Witness ==
    /\ Built
    /\ HasColumn(PortNumber)
    /\ \E i \in 1..Len(csv_text.rows) : Cell(i, PortNumber) = <<"1", "-", "2">>
    /\ \E i \in 1..Len(csv_text.rows) : Cell(i, PortNumber) = <<"6", "5", "5", "3", "6">>

\* C6: get_port_service_name and get_port_description return the
\* service_name and the description of the record get_port_info returns,
\* and the empty string when it returns none
C6_ConvenienceLookups ==
    LET p == get_port_info(port_desc.val, ret.port_number, ret.transport_protocol) IN
    /\ ret.op = "get_port_service_name" =>
          ret.val = (IF p = None THEN <<>> ELSE p[1].service_name)
    /\ ret.op = "get_port_description" =>
          ret.val = (IF p = None THEN <<>> ELSE p[1].description)

\* the description of an indexed record was returned
C6_Witness ==
    /\ ret.op = "get_port_description"
    /\ ret.val = <<"W", "e", "b">>
    /\ get_port_info(port_desc.val, ret.port_number, ret.transport_protocol) # None

\* C7: from_csv_file returns a registry or one of the two failures as an
\* error value; no call ends in a panic
C7_EveryFailureReturned ==
    port_desc # Pending =>
        \/ Built
        \/ port_desc = DatasetError
        \/ port_desc = SourceUnavailableError

\* the value a query returns when issued on the registry as constructed
Fresh(call) ==
    LET self == default(csv_text).val IN
    CASE call.op = "get_port_info" ->
            get_port_info(self, call.port_number, call.transport_protocol)
      [] call.op = "get_port_service_name" ->
            get_port_service_name(self, call.port_number, call.transport_protocol)
      [] call.op = "get_port_description" ->
            get_port_description(self, call.port_number, call.transport_protocol)

\* C9: once constructed, every step (each is a query) leaves the four
\* mappings as they are, and every value a query has returned is the value
\* the query returns on the registry as constructed
C9_QueriesReadOnly ==
    /\ [][Built => port_desc' = port_desc]_vars
    /\ []((Built /\ ret.op # "none") => ret.val = Fresh(ret))

\* a lookup has returned a record
C9_Witness ==
    /\ Built
    /\ ret.op = "get_port_info"
    /\ ret.val # None

\* C10: slot (P, n) is present exactly when some row has protocol P and
\* port n; its record is one of those rows; and no row is the record of
\* slots of two different mappings
C10_IndexComplete ==
    Built =>
        LET self == port_desc.val
            recs == Records
            ports == Ports(self, recs)
        IN  /\ \A n \in ports, P \in TransportProtocol :
                  LET e == get_port_info(self, n, P)
                      I == SlotRows(recs, n, P)
                  IN  /\ e # None <=> I # {}
                      /\ e # None => \E i \in I : e = Some(recs[i])
            /\ \A i \in 1..Len(recs) :
                  Cardinality({P \in TransportProtocol :
                      \E n \in ports : get_port_info(self, n, P) = Some(recs[i])}) <= 1

\* port 0 indexed under UDP only, beside a row with no protocol
C10_Witness ==
    /\ Built
    /\ get_port_info(port_desc.val, 0, "Udp") # None
    /\ get_port_info(port_desc.val, 0, "Tcp") = None
    /\ \E i \in 1..Len(Records) : Records[i].transport_protocol = None

====
